---- MODULE Spec2Model ----
(***************************************************************************)
(* Model of feddit_api/main.py: the FedditClient (request cache, per-key   *)
(* lock registry, deduplicated upstream GET) and the comments route that   *)
(* calls it.  The program runs on one asyncio event loop: a task runs      *)
(* without interruption from one suspension point to the next, so a task   *)
(* takes a step only while it is the running task, and another task is     *)
(* scheduled only when the running one suspends or ends.  The clock is     *)
(* independent of the event loop and may advance between any two steps.    *)
(***************************************************************************)
EXTENDS Integers, Sequences, FiniteSets, TLC

(***************************************************************************)
(* Bounds of the model.                                                    *)
(***************************************************************************)
NumTasks == 2
MaxTime == 3

Tasks == 1..NumTasks
None == "None"

(***************************************************************************)
(* Configuration (environment variables CACHE_TTL and CACHE_SIZE), set     *)
(* small so that expiry and eviction happen within the bounds.             *)
(***************************************************************************)
CACHE_TTL == 2
CACHE_SIZE == 2

(***************************************************************************)
(* Python strings.  Characters in code-point order, for str comparison     *)
(* and str.lower().                                                        *)
(***************************************************************************)
Chars ==
    << "C", "N", "T", "_", "a", "b", "c", "d", "e", "f", "g", "h", "i", "j",
       "k", "l", "m", "n", "o", "p", "q", "r", "s", "t", "u", "v", "w", "x",
       "y", "z" >>

Ord(ch) == CHOOSE i \in DOMAIN Chars : Chars[i] = ch

LowerChar(ch) ==
    CASE ch = "C" -> "c"
      [] ch = "N" -> "n"
      [] ch = "T" -> "t"
      [] OTHER -> ch

\* str.lower()
Lower(s) == [i \in DOMAIN s |-> LowerChar(s[i])]

\* s < t for two str values (lexicographic by code point): at the first
\* position where they differ, s has ended or has the smaller character.
StrLess(s, t) ==
    \E i \in 1..Len(t) :
        /\ \A j \in 1..(i - 1) : j <= Len(s) /\ s[j] = t[j]
        /\ \/ i > Len(s)
           \/ i <= Len(s) /\ Ord(s[i]) < Ord(t[i])

\* The spelling of the parameter names used as dict keys.
Spell(name) ==
    CASE name = "limit" -> << "l", "i", "m", "i", "t" >>
      [] name = "skip" -> << "s", "k", "i", "p" >>
      [] name = "subfeddit_id" ->
            << "s", "u", "b", "f", "e", "d", "d", "i", "t", "_", "i", "d" >>

ParamNames == {"limit", "skip", "subfeddit_id"}

\* n1 < n2 for two parameter names
NameLess ==
    [a \in ParamNames, b \in ParamNames |-> StrLess(Spell(a), Spell(b))]

\* (n1, v1) < (n2, v2) for two items of a dict: tuples compare by name first.
ItemLess(a, b) ==
    \/ NameLess[a[1], b[1]]
    \/ a[1] = b[1] /\ a[2] < b[2]

\* sorted(params.items()): a stable sort, so the item at index i comes
\* after the items that are smaller and the equal ones at a lower index.
Sorted(items) ==
    LET Rank(i) ==
            1 + Cardinality({j \in DOMAIN items :
                               \/ ItemLess(items[j], items[i])
                               \/ ~ItemLess(items[i], items[j]) /\ j < i})
    IN  [k \in DOMAIN items |-> items[CHOOSE i \in DOMAIN items : Rank(i) = k]]

\* A mutant of _get_cache_key: the items are not sorted.
GetCacheKeyUnsorted(url, params) == << url, params >>

\* FedditClient._get_cache_key: f"{url}:{str(sorted(params.items()))}".
\* params is the dict as its items in insertion order.  The text of the key
\* is the url, ":" and the list of sorted (name, value) tuples written out
\* in full, so two keys are equal exactly when the urls and the sorted item
\* lists are: the key is kept as that pair.
GetCacheKey(url, params) == << url, Sorted(params) >>

(***************************************************************************)
(* request_cache = TTLCache(maxsize=CACHE_SIZE, ttl=CACHE_TTL).  The cache  *)
(* is the sequence of its stored items, least recently used first; an item *)
(* is [key, value, expires] and, as history, `stamp`, the time it was      *)
(* stored, and `used`, the time it was last stored or read.                *)
(***************************************************************************)
StoredKeys(cache) == {cache[i].key : i \in DOMAIN cache}

Entry(cache, key) == cache[CHOOSE i \in DOMAIN cache : cache[i].key = key]

Without(cache, key) == SelectSeq(cache, LAMBDA e : e.key # key)

\* A mutant of CacheContains: the expiry time is not looked at.
CacheContainsNoExpiry(cache, key, t) == key \in StoredKeys(cache)

\* TTLCache.__contains__: the key is stored and its item has not expired.
CacheContains(cache, key, t) ==
    /\ key \in StoredKeys(cache)
    /\ t < Entry(cache, key).expires

\* A mutant of CacheGetItem: a read leaves the order of the items alone.
CacheGetItemNoTouch(cache, key, t) ==
    IF key \notin StoredKeys(cache)
    THEN [cache |-> cache, found |-> FALSE, value |-> 0, stamp |-> 0]
    ELSE LET e == Entry(cache, key)
         IN  [cache |-> [i \in DOMAIN cache |->
                           IF cache[i].key = key
                           THEN [cache[i] EXCEPT !.used = t] ELSE cache[i]],
              found |-> t < e.expires,
              value |-> e.value,
              stamp |-> e.stamp]

\* TTLCache.__getitem__ reading the timer at t: the item becomes the most
\* recently used one; an expired or missing item raises KeyError.
CacheGetItem(cache, key, t) ==
    IF key \notin StoredKeys(cache)
    THEN [cache |-> cache, found |-> FALSE, value |-> 0, stamp |-> 0]
    ELSE LET e == Entry(cache, key)
         IN  [cache |-> Append(Without(cache, key), [e EXCEPT !.used = t]),
              found |-> t < e.expires,
              value |-> e.value,
              stamp |-> e.stamp]

\* TTLCache.expire(t): every item with expires <= t is removed.
Expire(cache, t) == SelectSeq(cache, LAMBDA e : t < e.expires)

\* A mutant of MakeRoom: nothing is evicted.
MakeRoomNever(cache, t) == cache

\* Cache.__setitem__'s loop `while currsize + size > maxsize: popitem()`;
\* TTLCache.popitem removes the least recently used item.
RECURSIVE MakeRoom(_, _)
MakeRoom(cache, t) ==
    IF Len(cache) + 1 > CACHE_SIZE
    THEN MakeRoom(Tail(Expire(cache, t)), t)
    ELSE cache

\* TTLCache.__setitem__ reading the timer at t.
CacheSetItem(cache, key, value, t) ==
    LET live == Expire(cache, t)
        room == IF key \in StoredKeys(live) THEN live ELSE MakeRoom(live, t)
    IN  Append(Without(room, key),
               [key |-> key, value |-> value, expires |-> t + CACHE_TTL,
                stamp |-> t, used |-> t])

Live(cache, t) == {k \in StoredKeys(cache) : CacheContains(cache, k, t)}

(***************************************************************************)
(* The upstream Feddit API (a collaborator): what a successful GET of each *)
(* endpoint answers.                                                       *)
(***************************************************************************)
Cooking == << "C", "o", "o", "k", "i", "n", "g" >>
Travel == << "T", "r", "a", "v", "e", "l" >>

UpstreamSubfeddits ==
    << [id |-> 2, title |-> Travel], [id |-> 1, title |-> Cooking] >>

UpstreamComments ==
    << [id |-> 1, username |-> "user1", text |-> "great", created_at |-> 100],
       [id |-> 2, username |-> "user2", text |-> "terrible", created_at |-> 200],
       [id |-> 3, username |-> "user3", text |-> "neutral", created_at |-> 300] >>

ListingUrl == "/api/v1/subfeddits/"
DetailUrl == "/api/v1/subfeddit/"
CommentsUrl == "/api/v1/comments/"

\* params[name] of a dict given as its items
Param(params, name) ==
    params[CHOOSE i \in DOMAIN params : params[i][1] = name][2]

Min(a, b) == IF a < b THEN a ELSE b

\* The JSON body of a 2xx answer to GET url?params.
UpstreamJson(url, params) ==
    CASE url = ListingUrl -> [subfeddits |-> UpstreamSubfeddits]
      [] url = DetailUrl ->
            LET sid == Param(params, "subfeddit_id")
                s == CHOOSE x \in {UpstreamSubfeddits[i] :
                                     i \in DOMAIN UpstreamSubfeddits} : x.id = sid
            IN  [id |-> s.id, title |-> s.title]
      [] url = CommentsUrl ->
            LET skip == Param(params, "skip")
                limit == Param(params, "limit")
            IN  [subfeddit_id |-> Param(params, "subfeddit_id"),
                 limit |-> limit,
                 skip |-> skip,
                 comments |-> SubSeq(UpstreamComments, skip + 1,
                                     Min(skip + limit, Len(UpstreamComments)))]

\* A 2xx answer to the listing GET whose JSON body lacks an expected field:
\* the listing without its subfeddits field (the list comes under another
\* name), or the first subfeddit of the list without its title.
Malformed == {"no_field", "no_title"}

MalformedJson(outcome) ==
    IF outcome = "no_field"
    THEN [items |-> UpstreamSubfeddits]
    ELSE [subfeddits |->
            [i \in DOMAIN UpstreamSubfeddits |->
               IF i = 1 THEN [id |-> UpstreamSubfeddits[i].id]
               ELSE UpstreamSubfeddits[i]]]

\* How a GET ends: a 2xx answer with a JSON body, well-formed or malformed;
\* an httpx.HTTPError (transport error, timeout, or raise_for_status on a
\* non-2xx answer); a 2xx answer whose body is not JSON (response.json()
\* raises ValueError).
Outcomes == {"ok", "http_error", "invalid_json"} \cup Malformed

(***************************************************************************)
(* TextBlob polarity (a collaborator), in hundredths.                      *)
(***************************************************************************)
Polarity(text) ==
    CASE text = "great" -> 100
      [] text = "terrible" -> -100
      [] OTHER -> 0

\* analyze_sentiment
AnalyzeSentiment(text) ==
    LET polarity == Polarity(text)
    IN  [polarity |-> polarity,
         classification |-> IF polarity > 0 THEN "positive"
                            ELSE IF polarity < 0 THEN "negative"
                            ELSE "neutral"]

(***************************************************************************)
(* The arguments of a request to /api/subfeddit/{subfeddit_name}/comments. *)
(***************************************************************************)
SubfedditNames ==
    { << "c", "o", "o", "k", "i", "n", "g" >>,
      << "n", "o", "n", "e", "x", "i", "s", "t", "e", "n", "t" >> }

Pages == { [limit |-> 2, skip |-> 0], [limit |-> 1, skip |-> 1] }
SortBys == {None, "polarity", "created_at"}
SortOrders == {"asc", "desc"}
FilterBys == {None, "positive", "negative"}

\* sort_order is given with sort_by, and is "desc" when it is not given
Sortings ==
    {[sort_by |-> None, sort_order |-> "desc"]}
        \cup [sort_by : SortBys \ {None}, sort_order : SortOrders]

\* listing: history, the listing payload get_subfeddit_by_name searched.
NoRequest ==
    [subfeddit_name |-> << >>, page |-> [limit |-> 0, skip |-> 0],
     sort_by |-> None, sort_order |-> None, filter_by |-> None,
     listing |-> << >>]

(***************************************************************************)
(* State.                                                                  *)
(***************************************************************************)
VARIABLES
    now,            \* the clock the cache's timer reads
    running,        \* the task the event loop is running: {c}, or {}
    request_cache,  \* the module's TTLCache
    request_locks,  \* FedditClient._request_locks: cache key -> index in locks
    locks,          \* the asyncio.Lock objects created so far
    heap,           \* the dicts made by response.json(), by object id
    pc,             \* where each task is
    req,            \* the arguments of each task's request
    frame,          \* the locals of each task's _make_request call
    loc,            \* the locals of each task's route handler
    result,         \* the response each task sent
    getLog          \* history: per cache key, the network GETs issued so
                    \* far and how the latest of them ended

vars ==
    << now, running, request_cache, request_locks, locks, heap, pc, req,
       frame, loc, result, getLog >>

NoRet == [kind |-> None, obj |-> 0, exc |-> None, status |-> 0]
Value(obj) == [kind |-> "value", obj |-> obj, exc |-> None, status |-> 0]
Exc(name) == [kind |-> "exc", obj |-> 0, exc |-> name, status |-> 0]
HTTPException(status) ==
    [kind |-> "exc", obj |-> 0, exc |-> "HTTPException", status |-> status]

\* site: the call of _make_request being served; waited, peer, gets, age:
\* history (the call had to wait for the lock, the object a peer stored
\* under the same key while it waited, the GETs the call issued, the age of
\* the item it read).
NoFrame ==
    [site |-> None, url |-> None, params |-> << >>, cache_key |-> << >>,
     lock |-> 0, data |-> 0, ret |-> NoRet, waited |-> FALSE, peer |-> 0,
     gets |-> 0, age |-> 0]

NewFrame(site, url, params) ==
    [NoFrame EXCEPT !.site = site, !.url = url, !.params = params]

NoLoc == [subfeddit_data |-> 0, comments_data |-> 0]
NoResult == [status |-> 0, body |-> << >>]

\* asyncio.Lock(): _locked, and _waiters as the waiting tasks in order;
\* woken holds the waiters whose future has a result.
NewLock == [locked |-> FALSE, waiters |-> << >>, woken |-> {}]

Count(key) == IF key \in DOMAIN getLog THEN getLog[key].count ELSE 0
LastOutcome(key) == IF key \in DOMAIN getLog THEN getLog[key].last ELSE None
Logged(key, count, last) ==
    [k \in DOMAIN getLog \cup {key} |->
       IF k = key THEN [count |-> count, last |-> last] ELSE getLog[k]]

\* The objects the cache, the _make_request locals and the handler locals
\* refer to.
Refs(cache, fr, lc) ==
    {cache[i].value : i \in DOMAIN cache}
        \cup {fr[c].data : c \in Tasks} \cup {fr[c].ret.obj : c \in Tasks}
        \cup {lc[c].subfeddit_data : c \in Tasks}
        \cup {lc[c].comments_data : c \in Tasks}

\* A dict nothing refers to any more is freed (reference counting).
Freed == [freed |-> TRUE]
Sweep(h, cache, fr, lc) ==
    [o \in DOMAIN h |-> IF o \in Refs(cache, fr, lc) THEN h[o] ELSE Freed]

Init ==
    /\ now = 0
    /\ running = {}
    /\ request_cache = << >>
    /\ request_locks = << >>
    /\ locks = << >>
    /\ heap = << >>
    /\ pc = [c \in Tasks |-> "idle"]
    /\ req = [c \in Tasks |-> NoRequest]
    /\ frame = [c \in Tasks |-> NoFrame]
    /\ loc = [c \in Tasks |-> NoLoc]
    /\ result = [c \in Tasks |-> NoResult]
    /\ getLog = << >>

(***************************************************************************)
(* The clock.                                                              *)
(***************************************************************************)
\* The steps of a task that read the cache's timer.
TimerReads == {"mr_check1", "mr_read1", "mr_check2", "mr_read2", "mr_store"}

\* Only the cache reads the clock, so an advance is taken when no task runs
\* or right before a step of the running task that reads the timer.
Tick ==
    /\ now < MaxTime
    /\ \A c \in running : pc[c] \in TimerReads
    /\ now' = now + 1
    /\ UNCHANGED << running, request_cache, request_locks, locks, heap, pc,
                    req, frame, loc, result, getLog >>

(***************************************************************************)
(* get_subfeddit_comments is called with a request; it calls               *)
(* get_subfeddit_by_name, which calls _make_request for the listing.  An   *)
(* argument of the request is drawn by the step that first reads it.       *)
(***************************************************************************)
\* Tasks are numbered in the order in which their requests arrive.
Start(c, subfeddit_name) ==
    /\ running = {}
    /\ pc[c] = "idle"
    /\ \A d \in Tasks : d < c => pc[d] # "idle"
    /\ running' = {c}
    /\ req' = [req EXCEPT ![c].subfeddit_name = subfeddit_name]
    /\ frame' = [frame EXCEPT
                   ![c] = NewFrame("listing", ListingUrl, << << "limit", 100 >> >>)]
    /\ pc' = [pc EXCEPT ![c] = "mr_enter"]
    /\ UNCHANGED << now, request_cache, request_locks, locks, heap, loc,
                    result, getLog >>

(***************************************************************************)
(* FedditClient._make_request                                              *)
(***************************************************************************)
\* cache_key = self._get_cache_key(url, params)
MakeRequestEnter(c) ==
    /\ running = {c}
    /\ pc[c] = "mr_enter"
    /\ frame' = [frame EXCEPT
                   ![c].cache_key = GetCacheKey(frame[c].url, frame[c].params)]
    /\ pc' = [pc EXCEPT ![c] = "mr_check1"]
    /\ UNCHANGED << now, running, request_cache, request_locks, locks, heap,
                    req, loc, result, getLog >>

\* if cache_key in request_cache:                      (before the lock)
CheckCache1(c) ==
    /\ running = {c}
    /\ pc[c] = "mr_check1"
    /\ pc' = [pc EXCEPT
                ![c] = IF CacheContains(request_cache, frame[c].cache_key, now)
                       THEN "mr_read1" ELSE "mr_lock"]
    /\ UNCHANGED << now, running, request_cache, request_locks, locks, heap,
                    req, frame, loc, result, getLog >>

\* return request_cache[cache_key]                      (before the lock)
ReadCache1(c) ==
    /\ running = {c}
    /\ pc[c] = "mr_read1"
    /\ LET got == CacheGetItem(request_cache, frame[c].cache_key, now)
       IN  /\ request_cache' = got.cache
           /\ frame' = [frame EXCEPT
                          ![c].ret = IF got.found THEN Value(got.value)
                                     ELSE Exc("KeyError"),
                          ![c].age = IF got.found THEN now - got.stamp ELSE 0]
    /\ pc' = [pc EXCEPT ![c] = "mr_return"]
    /\ UNCHANGED << now, running, request_locks, locks, heap, req, loc,
                    result, getLog >>

\* A mutant of LookupLock: one lock serves every key.
LookupLockShared(registry, key) ==
    IF DOMAIN registry = {} THEN 0
    ELSE registry[CHOOSE k \in DOMAIN registry : TRUE]

\* A mutant of LookupLock: the registry is never consulted.
LookupLockNever(registry, key) == 0

\* `cache_key not in self._request_locks`: the key's lock, 0 when it has none
LookupLock(registry, key) ==
    IF key \in DOMAIN registry THEN registry[key] ELSE 0

\* self._get_request_lock(cache_key)
GetRequestLock(c) ==
    /\ running = {c}
    /\ pc[c] = "mr_lock"
    /\ LET key == frame[c].cache_key
           found == LookupLock(request_locks, key)
       IN  IF found = 0
           THEN /\ locks' = Append(locks, NewLock)
                /\ request_locks' =
                     [k \in DOMAIN request_locks \cup {key} |->
                        IF k = key THEN Len(locks) + 1 ELSE request_locks[k]]
                /\ frame' = [frame EXCEPT ![c].lock = Len(locks) + 1]
           ELSE /\ frame' = [frame EXCEPT ![c].lock = found]
                /\ UNCHANGED << locks, request_locks >>
    /\ pc' = [pc EXCEPT ![c] = "mr_acquire"]
    /\ UNCHANGED << now, running, request_cache, heap, req, loc, result,
                    getLog >>

\* A mutant of CanAcquire: a locked lock is taken all the same.
CanAcquireAlways(lock) == TRUE

\* asyncio.Lock.acquire takes the lock at once when it is free and nobody
\* waits for it.
CanAcquire(lock) == ~lock.locked /\ lock.waiters = << >>

\* async with <lock>: Lock.acquire()
Acquire(c) ==
    /\ running = {c}
    /\ pc[c] = "mr_acquire"
    /\ LET l == frame[c].lock
       IN  IF CanAcquire(locks[l])
           THEN /\ locks' = [locks EXCEPT ![l].locked = TRUE]
                /\ pc' = [pc EXCEPT ![c] = "mr_check2"]
                /\ UNCHANGED running
                /\ UNCHANGED frame
           ELSE /\ locks' = [locks EXCEPT ![l].waiters = Append(@, c)]
                /\ frame' = [frame EXCEPT ![c].waited = TRUE]
                /\ pc' = [pc EXCEPT ![c] = "mr_wait"]
                /\ running' = {}
    /\ UNCHANGED << now, request_cache, request_locks, heap, req, loc,
                    result, getLog >>

\* Lock.acquire() resumes once Lock.release() has woken it.
LockGranted(c) ==
    /\ running = {}
    /\ pc[c] = "mr_wait"
    /\ LET l == frame[c].lock
       IN  /\ c \in locks[l].woken
           /\ locks' = [locks EXCEPT
                          ![l].locked = TRUE,
                          ![l].waiters = SelectSeq(@, LAMBDA w : w # c),
                          ![l].woken = @ \ {c}]
    /\ running' = {c}
    /\ pc' = [pc EXCEPT ![c] = "mr_check2"]
    /\ UNCHANGED << now, request_cache, request_locks, heap, req, frame, loc,
                    result, getLog >>

\* A mutant of Recheck: the cache is not looked at again under the lock.
RecheckNever(cache, key, t) == FALSE

\* if cache_key in request_cache:                      (under the lock)
Recheck(cache, key, t) == CacheContains(cache, key, t)

CheckCache2(c) ==
    /\ running = {c}
    /\ pc[c] = "mr_check2"
    /\ pc' = [pc EXCEPT
                ![c] = IF Recheck(request_cache, frame[c].cache_key, now)
                       THEN "mr_read2" ELSE "mr_get"]
    /\ UNCHANGED << now, running, request_cache, request_locks, locks, heap,
                    req, frame, loc, result, getLog >>

\* return request_cache[cache_key]                      (under the lock)
ReadCache2(c) ==
    /\ running = {c}
    /\ pc[c] = "mr_read2"
    /\ LET got == CacheGetItem(request_cache, frame[c].cache_key, now)
       IN  /\ request_cache' = got.cache
           /\ frame' = [frame EXCEPT
                          ![c].ret = IF got.found THEN Value(got.value)
                                     ELSE Exc("KeyError"),
                          ![c].age = IF got.found THEN now - got.stamp ELSE 0]
    /\ pc' = [pc EXCEPT ![c] = "mr_exit"]
    /\ UNCHANGED << now, running, request_locks, locks, heap, req, loc,
                    result, getLog >>

\* response = await self.client.get(url, params=params): the GET is sent
SendGet(c) ==
    /\ running = {c}
    /\ pc[c] = "mr_get"
    /\ getLog' = Logged(frame[c].cache_key, Count(frame[c].cache_key) + 1,
                        "pending")
    /\ frame' = [frame EXCEPT ![c].gets = @ + 1]
    /\ pc' = [pc EXCEPT ![c] = "mr_await"]
    /\ running' = {}
    /\ UNCHANGED << now, request_cache, request_locks, locks, heap, req, loc,
                    result >>

\* ... and ends: response.raise_for_status(); data = response.json()
GetReturns(c, outcome) ==
    /\ running = {}
    /\ pc[c] = "mr_await"
    /\ running' = {c}
    /\ CASE outcome = "ok" ->
              /\ heap' = Append(heap, UpstreamJson(frame[c].url, frame[c].params))
              /\ frame' = [frame EXCEPT ![c].data = Len(heap) + 1]
              /\ pc' = [pc EXCEPT ![c] = "mr_store"]
         [] outcome \in Malformed ->
              /\ frame[c].url = ListingUrl
              /\ heap' = Append(heap, MalformedJson(outcome))
              /\ frame' = [frame EXCEPT ![c].data = Len(heap) + 1]
              /\ pc' = [pc EXCEPT ![c] = "mr_store"]
         [] outcome = "http_error" ->
              /\ pc' = [pc EXCEPT ![c] = "mr_except"]
              /\ UNCHANGED << heap, frame >>
         [] outcome = "invalid_json" ->
              /\ frame' = [frame EXCEPT ![c].ret = Exc("ValueError")]
              /\ pc' = [pc EXCEPT ![c] = "mr_exit"]
              /\ UNCHANGED heap
    /\ getLog' = Logged(frame[c].cache_key, Count(frame[c].cache_key), outcome)
    /\ UNCHANGED << now, request_cache, request_locks, locks, req, loc,
                    result >>

\* The tasks other than c that wait for the lock of key.
Waiting(c, key) ==
    {d \in Tasks \ {c} : pc[d] = "mr_wait" /\ frame[d].cache_key = key}

\* request_cache[cache_key] = data; return data
StoreCache(c) ==
    /\ running = {c}
    /\ pc[c] = "mr_store"
    /\ request_cache' =
         CacheSetItem(request_cache, frame[c].cache_key, frame[c].data, now)
    /\ frame' = [d \in Tasks |->
                   IF d = c THEN [frame[c] EXCEPT !.ret = Value(frame[c].data)]
                   ELSE IF d \in Waiting(c, frame[c].cache_key)
                   THEN [frame[d] EXCEPT !.peer = frame[c].data]
                   ELSE frame[d]]
    /\ heap' = Sweep(heap, request_cache', frame', loc)
    /\ pc' = [pc EXCEPT ![c] = "mr_exit"]
    /\ UNCHANGED << now, running, request_locks, locks, req, loc, result,
                    getLog >>

\* A mutant of AfterHTTPError: a failed GET is tried once more.
AfterHTTPErrorRetry(gets) == IF gets < 2 THEN "mr_get" ELSE "mr_exit"

\* Where the except clause leads after gets GETs: out of the block, with
\* the exception.
AfterHTTPError(gets) == "mr_exit"

\* except httpx.HTTPError as e: raise HTTPException(status_code=500, ...)
HandleHTTPError(c) ==
    /\ running = {c}
    /\ pc[c] = "mr_except"
    /\ frame' = [frame EXCEPT ![c].ret = HTTPException(500)]
    /\ pc' = [pc EXCEPT ![c] = AfterHTTPError(frame[c].gets)]
    /\ UNCHANGED << now, running, request_cache, request_locks, locks, heap,
                    req, loc, result, getLog >>

\* A mutant of Release: the first waiter is not woken.
ReleaseNoWake(lock) == [lock EXCEPT !.locked = FALSE]

\* asyncio.Lock.release: unlock and wake the first waiter.
Release(lock) ==
    [lock EXCEPT !.locked = FALSE,
                 !.woken = IF lock.waiters = << >> THEN @
                           ELSE @ \cup {Head(lock.waiters)}]

\* A mutant of LeaveLock: the lock is released on return only, not when an
\* exception leaves the block.
LeaveLockOnReturn(lock, ret) ==
    IF ret.kind = "value" THEN Release(lock) ELSE lock

\* `async with` releases the lock however the block is left.
LeaveLock(lock, ret) == Release(lock)

\* Leaving `async with`, by return or by exception
ExitLock(c) ==
    /\ running = {c}
    /\ pc[c] = "mr_exit"
    /\ locks' = [locks EXCEPT ![frame[c].lock] = LeaveLock(@, frame[c].ret)]
    /\ pc' = [pc EXCEPT ![c] = "mr_return"]
    /\ UNCHANGED << now, running, request_cache, request_locks, heap, req,
                    frame, loc, result, getLog >>

(***************************************************************************)
(* FedditClient.get_subfeddit_by_name and get_comments                     *)
(***************************************************************************)
\* The response is sent and the task ends.
Finish(c, status, body, h) ==
    /\ result' = [result EXCEPT ![c] = [status |-> status, body |-> body]]
    /\ pc' = [pc EXCEPT ![c] = "done"]
    /\ running' = {}
    /\ frame' = [frame EXCEPT ![c] = NoFrame]
    /\ loc' = [loc EXCEPT ![c] = NoLoc]
    /\ heap' = Sweep(h, request_cache, frame', loc')

\* A mutant of StatusOf: every error is reported as 500.
StatusOfAlways500(ret) == 500

\* `except HTTPException: raise` and
\* `except Exception as e: raise HTTPException(status_code=500, ...)`
StatusOf(ret) == IF ret.exc = "HTTPException" THEN ret.status ELSE 500

\* A mutant of FindSubfeddit: the titles are compared as they are.
FindSubfedditExact(subfeddits, name) ==
    LET hits == {i \in DOMAIN subfeddits :
                   /\ "title" \in DOMAIN subfeddits[i]
                   /\ subfeddits[i].title = name}
    IN  IF hits = {} THEN 0 ELSE CHOOSE i \in hits : \A j \in hits : i <= j

\* next((s for s in subfeddits if s['title'].lower() == name.lower()), None):
\* the index of the first match, 0 for None
FindSubfeddit(subfeddits, name) ==
    LET hits == {i \in DOMAIN subfeddits :
                   /\ "title" \in DOMAIN subfeddits[i]
                   /\ Lower(subfeddits[i].title) = Lower(name)}
    IN  IF hits = {} THEN 0 ELSE CHOOSE i \in hits : \A j \in hits : i <= j

\* s['title'] raises KeyError: the generator reaches a subfeddit without a
\* title before the one at index found (before the end when found is 0).
TitleMissing(subfeddits, found) ==
    \E i \in DOMAIN subfeddits :
        /\ "title" \notin DOMAIN subfeddits[i]
        /\ found = 0 \/ i < found

\* _make_request raised in get_subfeddit_by_name or in get_comments: the
\* route answers with the HTTPException's status, or 500 for another error.
RequestFailed(c) ==
    /\ running = {c}
    /\ pc[c] = "mr_return"
    /\ frame[c].ret.kind = "exc"
    /\ Finish(c, StatusOf(frame[c].ret), << >>, heap)
    /\ UNCHANGED << now, request_cache, request_locks, locks, req, getLog >>

\* get_subfeddit_by_name after the listing: the search, then either
\* HTTPException(404) or _make_request for the detail record.
SearchListing(c) ==
    /\ running = {c}
    /\ pc[c] = "mr_return"
    /\ frame[c].site = "listing"
    /\ frame[c].ret.kind = "value"
    /\ LET subfeddits_data == heap[frame[c].ret.obj]
           subfeddits == IF "subfeddits" \in DOMAIN subfeddits_data
                         THEN subfeddits_data.subfeddits ELSE << >>
           i == FindSubfeddit(subfeddits, req[c].subfeddit_name)
       IN  /\ req' = [req EXCEPT ![c].listing = subfeddits_data]
           /\ IF TitleMissing(subfeddits, i)
              THEN Finish(c, StatusOf(Exc("KeyError")), << >>, heap)
              ELSE IF i = 0
              THEN Finish(c, StatusOf(HTTPException(404)), << >>, heap)
              ELSE /\ frame' = [frame EXCEPT
                                  ![c] = NewFrame("detail", DetailUrl,
                                           << << "subfeddit_id",
                                                 subfeddits[i].id >> >>)]
                   /\ pc' = [pc EXCEPT ![c] = "mr_enter"]
                   /\ heap' = Sweep(heap, request_cache, frame', loc)
                   /\ UNCHANGED << running, loc, result >>
    /\ UNCHANGED << now, request_cache, request_locks, locks, getLog >>

\* get_subfeddit_by_name returns the detail record; the route calls
\* get_comments(subfeddit_data['id'], limit, skip).
GetComments(c, page) ==
    /\ running = {c}
    /\ pc[c] = "mr_return"
    /\ frame[c].site = "detail"
    /\ frame[c].ret.kind = "value"
    /\ req' = [req EXCEPT ![c].page = page]
    /\ loc' = [loc EXCEPT ![c].subfeddit_data = frame[c].ret.obj]
    /\ frame' = [frame EXCEPT
                   ![c] = NewFrame("comments", CommentsUrl,
                            << << "subfeddit_id", heap[frame[c].ret.obj].id >>,
                               << "limit", page.limit >>,
                               << "skip", page.skip >> >>)]
    /\ pc' = [pc EXCEPT ![c] = "mr_enter"]
    /\ UNCHANGED << now, running, request_cache, request_locks, locks, heap,
                    result, getLog >>

(***************************************************************************)
(* get_subfeddit_comments, after get_comments returned                     *)
(***************************************************************************)
GotComments(c) ==
    /\ running = {c}
    /\ pc[c] = "mr_return"
    /\ frame[c].site = "comments"
    /\ frame[c].ret.kind = "value"
    /\ loc' = [loc EXCEPT ![c].comments_data = frame[c].ret.obj]
    /\ frame' = [frame EXCEPT ![c] = NoFrame]
    /\ pc' = [pc EXCEPT ![c] = "h_augment"]
    /\ UNCHANGED << now, running, request_cache, request_locks, locks, heap,
                    req, result, getLog >>

\* comment['sentiment'] = sentiment.dict()
WithSentiment(comment) ==
    ("sentiment" :> AnalyzeSentiment(comment.text)) @@ comment

\* for comment in comments_data['comments']: comment['sentiment'] = ...
Augment(c) ==
    /\ running = {c}
    /\ pc[c] = "h_augment"
    /\ heap' = [heap EXCEPT
                  ![loc[c].comments_data].comments =
                     [i \in DOMAIN @ |-> WithSentiment(@[i])]]
    /\ pc' = [pc EXCEPT ![c] = "h_filter"]
    /\ UNCHANGED << now, running, request_cache, request_locks, locks, req,
                    frame, loc, result, getLog >>

\* [comment for comment in comments if classification == filter_by]
Filtered(comments, filter_by) ==
    SelectSeq(comments, LAMBDA cm : cm.sentiment.classification = filter_by)

\* if filter_by: comments_data['comments'] = [...]
Filter(c, filter_by) ==
    /\ running = {c}
    /\ pc[c] = "h_filter"
    /\ req' = [req EXCEPT ![c].filter_by = filter_by]
    /\ heap' = IF filter_by # None
               THEN [heap EXCEPT ![loc[c].comments_data].comments =
                                    Filtered(@, filter_by)]
               ELSE heap
    /\ pc' = [pc EXCEPT ![c] = "h_sort"]
    /\ UNCHANGED << now, running, request_cache, request_locks, locks, frame,
                    loc, result, getLog >>

SortKey(comment, sort_by) ==
    IF sort_by = "polarity" THEN comment.sentiment.polarity
    ELSE comment.created_at

\* x goes in front of y
Before(x, y, sort_by, reverse) ==
    IF reverse THEN SortKey(x, sort_by) > SortKey(y, sort_by)
    ELSE SortKey(x, sort_by) < SortKey(y, sort_by)

\* list.sort(key=..., reverse=reverse): a stable sort, also when reversed:
\* the comment at index i comes after those that go in front of it and
\* those with an equal key at a lower index.
SortedBy(s, sort_by, reverse) ==
    LET Rank(i) ==
            1 + Cardinality({j \in DOMAIN s :
                               \/ Before(s[j], s[i], sort_by, reverse)
                               \/ ~Before(s[i], s[j], sort_by, reverse) /\ j < i})
    IN  [k \in DOMAIN s |-> s[CHOOSE i \in DOMAIN s : Rank(i) = k]]

\* if sort_by: comments_data['comments'].sort(key=..., reverse=reverse)
Sort(c, sorting) ==
    /\ running = {c}
    /\ pc[c] = "h_sort"
    /\ req' = [req EXCEPT ![c].sort_by = sorting.sort_by,
                          ![c].sort_order = sorting.sort_order]
    /\ heap' = IF sorting.sort_by # None
               THEN [heap EXCEPT ![loc[c].comments_data].comments =
                                    SortedBy(@, sorting.sort_by,
                                             sorting.sort_order = "desc")]
               ELSE heap
    /\ pc' = [pc EXCEPT ![c] = "h_respond"]
    /\ UNCHANGED << now, running, request_cache, request_locks, locks, frame,
                    loc, result, getLog >>

\* comments_data['subfeddit_name'] = ...; ...
Annotated(comments_data, r) ==
    [subfeddit_name |-> r.subfeddit_name, sort_by |-> r.sort_by,
     sort_order |-> r.sort_order, filter_by |-> r.filter_by] @@ comments_data

\* CommentsResponse(**comments_data)
CommentsResponse(d) ==
    [subfeddit_id |-> d.subfeddit_id, subfeddit_name |-> d.subfeddit_name,
     limit |-> d.limit, skip |-> d.skip, sort_by |-> d.sort_by,
     sort_order |-> d.sort_order, filter_by |-> d.filter_by,
     comments |-> d.comments]

\* comments_data[...] = ...; return CommentsResponse(**comments_data)
Respond(c) ==
    /\ running = {c}
    /\ pc[c] = "h_respond"
    /\ LET o == loc[c].comments_data
           d == Annotated(heap[o], req[c])
       IN  Finish(c, 200, << CommentsResponse(d) >>, [heap EXCEPT ![o] = d])
    /\ UNCHANGED << now, request_cache, request_locks, locks, req, getLog >>

(***************************************************************************)
(* The specification.                                                      *)
(***************************************************************************)
TaskStep(c) ==
    \/ MakeRequestEnter(c)
    \/ CheckCache1(c)
    \/ ReadCache1(c)
    \/ GetRequestLock(c)
    \/ Acquire(c)
    \/ LockGranted(c)
    \/ CheckCache2(c)
    \/ ReadCache2(c)
    \/ SendGet(c)
    \/ StoreCache(c)
    \/ HandleHTTPError(c)
    \/ ExitLock(c)
    \/ RequestFailed(c)
    \/ SearchListing(c)
    \/ GotComments(c)
    \/ Augment(c)
    \/ Respond(c)

Next ==
    \/ Tick
    \/ \E c \in Tasks : \E name \in SubfedditNames : Start(c, name)
    \/ \E c \in Tasks : \E page \in Pages : GetComments(c, page)
    \/ \E c \in Tasks : \E filter_by \in FilterBys : Filter(c, filter_by)
    \/ \E c \in Tasks : \E sorting \in Sortings : Sort(c, sorting)
    \/ \E c \in Tasks : \E outcome \in Outcomes : GetReturns(c, outcome)
    \/ \E c \in Tasks : TaskStep(c)

Spec == Init /\ [][Next]_vars

\* The event loop runs every task that can run, and every GET ends (with an
\* answer, an error or the client's timeout).
Proceed(c) ==
    \/ TaskStep(c)
    \/ \E page \in Pages : GetComments(c, page)
    \/ \E filter_by \in FilterBys : Filter(c, filter_by)
    \/ \E sorting \in Sortings : Sort(c, sorting)

FairSpec ==
    /\ Spec
    /\ \A c \in Tasks : WF_vars(Proceed(c))
    /\ \A c \in Tasks : WF_vars(\E outcome \in Outcomes : GetReturns(c, outcome))

(***************************************************************************)
(* Properties.                                                             *)
(***************************************************************************)
\* The steps of _make_request inside `async with <lock>`.
LockHeld ==
    {"mr_check2", "mr_read2", "mr_get", "mr_await", "mr_store", "mr_except",
     "mr_exit"}

Holders(key) ==
    {c \in Tasks : pc[c] \in LockHeld /\ frame[c].cache_key = key}

InFlight(key) ==
    {c \in Tasks : pc[c] = "mr_await" /\ frame[c].cache_key = key}

ActiveKeys == {frame[c].cache_key : c \in Tasks} \ {<< >>}

C2_OneHolderPerKey ==
    \A key \in ActiveKeys :
        /\ Cardinality(Holders(key)) <= 1
        /\ Cardinality(InFlight(key)) <= 1

C2_Witness ==
    \E c, d \in Tasks :
        /\ pc[c] = "mr_await"
        /\ pc[d] = "mr_wait"
        /\ frame[c].cache_key = frame[d].cache_key

Failures == {"http_error", "invalid_json"}

\* C3: a call whose GET failed leaves no live item for its key and leaves
\* the key's lock unlocked; the failure it raises comes from its own GET;
\* and as long as the latest GET for a key has failed the cache has no live
\* item for that key, so the next call for it sends a GET.
C3_FailureNotCached ==
    /\ \A c \in Tasks :
          pc[c] = "mr_return" /\ frame[c].ret.exc \in {"HTTPException", "ValueError"} =>
              /\ frame[c].gets = 1
              /\ ~CacheContains(request_cache, frame[c].cache_key, now)
              /\ ~locks[frame[c].lock].locked
    /\ \A key \in DOMAIN getLog :
          getLog[key].last \in Failures =>
              ~CacheContains(request_cache, key, now)

C3_Witness ==
    \E c \in Tasks :
        /\ pc[c] = "mr_await"
        /\ Count(frame[c].cache_key) = 2
        /\ \E d \in Tasks : pc[d] = "done" /\ result[d].status = 500
        /\ \A key \in DOMAIN getLog : getLog[key].count = 1 => getLog[key].last = "ok"

\* C5: no cached comments payload holds a comment with a sentiment field.
C5_NoSentimentCached ==
    \A i \in DOMAIN request_cache :
        LET d == heap[request_cache[i].value]
        IN  "comments" \in DOMAIN d =>
                \A j \in DOMAIN d.comments : "sentiment" \notin DOMAIN d.comments[j]

Orderings(items) ==
    {p \in [DOMAIN items -> {items[i] : i \in DOMAIN items}] :
        \A i, j \in DOMAIN items : i # j => p[i] # p[j]}

\* C6: whatever the order in which the parameters of a request are given,
\* _get_cache_key returns the key the call computed, and that key has the
\* same lock.
C6_KeyIgnoresOrder ==
    \A c \in Tasks :
        frame[c].cache_key # << >> =>
            \A p \in Orderings(frame[c].params) :
                /\ GetCacheKey(frame[c].url, p) = frame[c].cache_key
                /\ frame[c].lock # 0 =>
                       LookupLock(request_locks, GetCacheKey(frame[c].url, p))
                           = frame[c].lock

C6_Witness ==
    \E c \in Tasks :
        /\ frame[c].site = "comments"
        /\ Len(frame[c].params) = 3
        /\ frame[c].params # Sorted(frame[c].params)
        /\ pc[c] = "mr_await"

\* C9: a cache lookup in _make_request never raises.
C9_LookupNeverRaises ==
    \A c \in Tasks : frame[c].ret.exc # "KeyError"

\* C4: a locked lock belongs to a task inside `async with`, whichever way
\* the previous holder left it; so a task that waits for a lock gets it and
\* its request ends.
C4_WaitersProceed ==
    /\ [](\A l \in DOMAIN locks :
            locks[l].locked =>
                \E c \in Tasks : pc[c] \in LockHeld /\ frame[c].lock = l)
    /\ \A c \in Tasks : (pc[c] = "mr_wait") ~> (pc[c] = "done")

C4_Witness ==
    \E c \in Tasks :
        /\ frame[c].waited
        /\ pc[c] = "mr_check2"
        /\ LastOutcome(frame[c].cache_key) \in Failures

\* C7: an item younger than the TTL is found and read with the value that
\* was stored; an item whose age has reached the TTL is absent to both the
\* membership test and the read; no call returns a cached payload whose age
\* is the TTL or more.
C7_ExpiryByAge ==
    /\ \A i \in DOMAIN request_cache :
          LET e == request_cache[i]
              got == CacheGetItem(request_cache, e.key, now)
          IN  IF now - e.stamp < CACHE_TTL
              THEN /\ CacheContains(request_cache, e.key, now)
                   /\ got.found
                   /\ got.value = e.value
              ELSE /\ ~CacheContains(request_cache, e.key, now)
                   /\ ~got.found
    /\ \A c \in Tasks :
          /\ pc[c] = "mr_exit" /\ frame[c].gets = 1 /\ frame[c].ret.kind = "value" =>
                 /\ CacheContains(request_cache, frame[c].cache_key, now)
                 /\ CacheGetItem(request_cache, frame[c].cache_key, now).value
                        = frame[c].data
          /\ frame[c].gets = 0 /\ frame[c].ret.kind = "value" =>
                 frame[c].age < CACHE_TTL

C7_Witness ==
    \E c \in Tasks :
        /\ pc[c] = "mr_lock"
        /\ frame[c].cache_key \in StoredKeys(request_cache)
        /\ now - Entry(request_cache, frame[c].cache_key).stamp >= CACHE_TTL

\* C8: the cache never stores more than CACHE_SIZE items; storing a new key
\* when CACHE_SIZE items are live leaves exactly CACHE_SIZE live items, the
\* new one among them; and looking up a key that is not stored is a miss
\* that leads to the lock and the GET.
C8_Capacity ==
    [][/\ Len(request_cache') <= CACHE_SIZE
       /\ \A c \in Tasks :
             LET key == frame[c].cache_key
             IN  /\ (/\ pc[c] = "mr_store"
                     /\ pc'[c] = "mr_exit"
                     /\ Cardinality(Live(request_cache, now)) = CACHE_SIZE
                     /\ key \notin StoredKeys(request_cache))
                        => /\ Cardinality(Live(request_cache', now)) = CACHE_SIZE
                           /\ key \in Live(request_cache', now)
                 /\ (/\ pc[c] \in {"mr_check1", "mr_check2"}
                     /\ pc'[c] # pc[c]
                     /\ key \notin StoredKeys(request_cache))
                        => pc'[c] = (IF pc[c] = "mr_check1" THEN "mr_lock"
                                     ELSE "mr_get")]_vars

C8_Witness ==
    /\ now < CACHE_TTL
    /\ Len(request_cache) = CACHE_SIZE
    /\ \E key \in DOMAIN getLog :
          /\ getLog[key].last = "ok"
          /\ key \notin StoredKeys(request_cache)
          /\ \E c \in Tasks : frame[c].cache_key = key /\ pc[c] = "mr_get"

\* The subfeddits of a listing payload that have a title.
Titled(listing) ==
    IF "subfeddits" \in DOMAIN listing
    THEN SelectSeq(listing.subfeddits, LAMBDA s : "title" \in DOMAIN s)
    ELSE << >>

\* The ids of the subfeddits of a listing whose title is name, ignoring case.
MatchIds(listing, name) ==
    LET subfeddits == Titled(listing)
    IN  {subfeddits[i].id : i \in
           {j \in DOMAIN subfeddits :
               Lower(subfeddits[j].title) = Lower(name)}}

MalformedListing(listing) ==
    /\ listing # << >>
    /\ \/ "subfeddits" \notin DOMAIN listing
       \/ \E i \in DOMAIN listing.subfeddits :
              "title" \notin DOMAIN listing.subfeddits[i]

\* C11: a request whose listing payload lacks an expected field ends with an
\* error of its own kind, neither the not-found answer (404) nor the answer
\* given for an upstream failure (500), and no default stands in for the
\* missing field.
C11_MalformedSurfaced ==
    \A c \in Tasks :
        pc[c] = "done" /\ MalformedListing(req[c].listing) =>
            result[c].status \notin {404, 500}

\* The tasks other than c that hold, wait for or are about to take the lock
\* of key.
Contenders(c, key) ==
    {d \in Tasks \ {c} :
        /\ frame[d].cache_key = key
        /\ pc[d] \in LockHeld \cup {"mr_acquire", "mr_wait"}}

\* C12: two cache keys never have the same lock, a task waits only for a
\* lock that tasks of its own key hold or wait for, and a task whose key no
\* other task holds, waits for or is about to take gets its lock at once,
\* whatever GETs for other keys are in flight.
C12_OtherKeysDoNotBlock ==
    /\ [](/\ \A k1, k2 \in DOMAIN request_locks :
                 request_locks[k1] = request_locks[k2] => k1 = k2
          /\ \A c, d \in Tasks :
                 /\ pc[c] = "mr_wait"
                 /\ pc[d] \in LockHeld \cup {"mr_wait"}
                 /\ frame[d].lock = frame[c].lock
                 => frame[d].cache_key = frame[c].cache_key)
    /\ [][\A c \in Tasks :
             /\ pc[c] = "mr_acquire"
             /\ pc'[c] # "mr_acquire"
             /\ Contenders(c, frame[c].cache_key) = {}
             => pc'[c] = "mr_check2"]_vars

C12_Witness ==
    \E c, d \in Tasks :
        /\ pc[c] = "mr_await"
        /\ pc[d] = "mr_await"
        /\ frame[c].cache_key # frame[d].cache_key
        /\ ~frame[d].waited

\* The comments the upstream serves for the page of task c's request, each
\* with its sentiment.
UpstreamPage(c) ==
    LET page ==
            UpstreamJson(CommentsUrl,
                         << << "subfeddit_id", result[c].body[1].subfeddit_id >>,
                            << "limit", req[c].page.limit >>,
                            << "skip", req[c].page.skip >> >>).comments
    IN  [i \in DOMAIN page |-> WithSentiment(page[i])]

\* The page of task c's request after the filter of that request.
FilteredPage(c) ==
    IF req[c].filter_by = None THEN UpstreamPage(c)
    ELSE Filtered(UpstreamPage(c), req[c].filter_by)

Range(s) == {s[i] : i \in DOMAIN s}

Answered == {c \in Tasks : pc[c] = "done" /\ result[c].status = 200}

\* C13: the comments of a response to a request with filter_by are exactly
\* the comments of the requested page that have that classification.
C13_FilterExact ==
    \A c \in Answered :
        req[c].filter_by # None =>
            Range(result[c].body[1].comments)
                = {cm \in Range(UpstreamPage(c)) :
                     cm.sentiment.classification = req[c].filter_by}

\* C14: with sort_by the comments of a response are a permutation of the
\* (filtered) page in the order of that field, descending for desc and
\* ascending for asc; without sort_by they are the (filtered) page in the
\* upstream order.
C14_SortOrdered ==
    \A c \in Answered :
        LET out == result[c].body[1].comments
            page == FilteredPage(c)
        IN  IF req[c].sort_by = None
            THEN out = page
            ELSE /\ Len(out) = Len(page)
                 /\ Range(out) = Range(page)
                 /\ \A i, j \in DOMAIN out :
                        i < j =>
                            IF req[c].sort_order = "desc"
                            THEN SortKey(out[i], req[c].sort_by)
                                     >= SortKey(out[j], req[c].sort_by)
                            ELSE SortKey(out[i], req[c].sort_by)
                                     <= SortKey(out[j], req[c].sort_by)

\* C19: the response to a request without filter_by and sort_by holds the
\* comments of the requested page in the upstream order, whatever filter or
\* sort an earlier request for the same page used.
C19_LaterRequestUnaffected ==
    \A c \in Answered :
        req[c].filter_by = None /\ req[c].sort_by = None =>
            result[c].body[1].comments = UpstreamPage(c)

\* C15: a request whose _make_request raised ends at once with an empty
\* body and the status of the HTTPException raised, or 500 for any other
\* exception; a search of the listing that ends the request answers 404,
\* or 500 when a title was missing (KeyError); and a request is answered
\* 200 only by the last step of the handler.
C15_StatusPropagated ==
    [][\A c \in Tasks :
          /\ (/\ pc[c] = "mr_return"
              /\ frame[c].ret.kind = "exc"
              /\ pc'[c] # pc[c])
                 => /\ pc'[c] = "done"
                    /\ result'[c].body = << >>
                    /\ result'[c].status =
                          (IF frame[c].ret.exc = "HTTPException"
                           THEN frame[c].ret.status ELSE 500)
          /\ (/\ pc[c] = "mr_return"
              /\ frame[c].ret.kind = "value"
              /\ pc'[c] = "done")
                 => /\ frame[c].site = "listing"
                    /\ result'[c].body = << >>
                    /\ result'[c].status =
                          (IF "subfeddits" \in DOMAIN req'[c].listing
                              /\ Len(Titled(req'[c].listing))
                                     < Len(req'[c].listing.subfeddits)
                           THEN 500 ELSE 404)
          /\ (pc[c] # "done" /\ pc'[c] = "done" /\ result'[c].status = 200)
                 => pc[c] = "h_respond"]_vars

C15_Witness ==
    \E c, d \in Tasks :
        /\ pc[c] = "done"
        /\ result[c].status = 404
        /\ pc[d] = "done"
        /\ result[d].status = 500
        /\ \E key \in DOMAIN getLog : getLog[key].last = "invalid_json"

\* The items a store by task c evicts for want of room: the cache is full,
\* none of its items has expired and the key is new.
Evicted(c) ==
    IF /\ pc[c] = "mr_store"
       /\ pc'[c] = "mr_exit"
       /\ Len(request_cache) = CACHE_SIZE
       /\ Expire(request_cache, now) = request_cache
       /\ frame[c].cache_key \notin StoredKeys(request_cache)
    THEN {e \in Range(request_cache) : e.key \notin StoredKeys(request_cache')}
    ELSE {}

Kept(c) ==
    {e \in Range(request_cache) : e.key \in StoredKeys(request_cache')}

\* C16 as claimed: the item evicted for want of room is the one stored the
\* longest ago, whatever reads happened since.
C16_EvictsOldestInserted ==
    [][\A c \in Tasks :
          \A e \in Evicted(c) : \A k \in Kept(c) : e.stamp <= k.stamp]_vars

\* C16 as amended: exactly one item is evicted, the least recently used
\* one: no item that stays was last stored or read before it; it is the one
\* stored the longest ago when no item was read since it was stored.
C16_EvictsLeastRecentlyUsed ==
    [][\A c \in Tasks :
          /\ Evicted(c) # {} => Cardinality(Evicted(c)) = 1
          /\ \A e \in Evicted(c) : \A k \in Kept(c) :
                /\ e.used <= k.used
                /\ (\A x \in Range(request_cache) : x.used = x.stamp)
                       => e.stamp <= k.stamp]_vars

ListingKey == GetCacheKey(ListingUrl, << << "limit", 100 >> >>)

\* The listing, stored once and read since, stays while the detail record,
\* stored after it, has been evicted: nothing has expired yet.
C16_Witness ==
    /\ now < CACHE_TTL
    /\ Len(request_cache) = CACHE_SIZE
    /\ Count(ListingKey) = 1
    /\ \E i \in DOMAIN request_cache :
          /\ request_cache[i].key = ListingKey
          /\ request_cache[i].used > request_cache[i].stamp
    /\ \E key \in DOMAIN getLog :
          /\ key[1] = DetailUrl
          /\ getLog[key].last = "ok"
          /\ key \notin StoredKeys(request_cache)

\* C17: every task has the lock the registry holds for its key, so all
\* callers for one key have the same lock; there are as many locks as keys
\* in the registry; and a key of the registry stays, with its lock.
C17_OneLockPerKey ==
    /\ [](/\ \A c \in Tasks :
                 frame[c].lock # 0 =>
                     /\ frame[c].cache_key \in DOMAIN request_locks
                     /\ request_locks[frame[c].cache_key] = frame[c].lock
          /\ Len(locks) = Cardinality(DOMAIN request_locks))
    /\ [][\A key \in DOMAIN request_locks :
             /\ key \in DOMAIN request_locks'
             /\ request_locks'[key] = request_locks[key]]_vars

C17_Witness ==
    \E c, d \in Tasks :
        /\ c # d
        /\ pc[c] = "mr_await"
        /\ pc[d] = "mr_acquire"
        /\ frame[d].lock = frame[c].lock
        /\ Len(locks) > 1

Checks == {"mr_check1", "mr_check2"}
Reads == {"mr_read1", "mr_read2"}

\* C18: a call issues at most one GET; a cache check that hits leads to the
\* read and the return, and a call that returns what it read (or raises
\* from the read) has issued no GET; after its GET failed the call leaves
\* with the exception and no further GET.
C18_AtMostOneGet ==
    /\ [](\A c \in Tasks :
             /\ frame[c].gets <= 1
             /\ pc[c] \in Reads => frame[c].gets = 0
             /\ frame[c].ret.exc = "KeyError" => frame[c].gets = 0
             /\ frame[c].ret.kind = "value" /\ frame[c].ret.obj # frame[c].data
                    => frame[c].gets = 0
             /\ frame[c].ret.exc \in {"HTTPException", "ValueError"}
                    => frame[c].gets = 1)
    /\ [][\A c \in Tasks :
             /\ (/\ pc[c] \in Checks
                 /\ CacheContains(request_cache, frame[c].cache_key, now)
                 /\ pc'[c] # pc[c])
                    => pc'[c] \in Reads
             /\ (pc[c] \in Reads \cup {"mr_except"} /\ pc'[c] # pc[c])
                    => /\ pc'[c] \in {"mr_exit", "mr_return"}
                       /\ frame'[c].gets = frame[c].gets]_vars

C18_Witness ==
    \E c \in Tasks \ {1} :
        /\ pc[c] = "mr_return"
        /\ frame[c].site = "detail"
        /\ frame[c].ret = HTTPException(500)
        /\ frame[c].gets = 1
        /\ Count(ListingKey) = 1

\* The item stored under key is new or has been replaced.
StoredAnew(key) ==
    /\ key \in StoredKeys(request_cache')
    /\ \/ key \notin StoredKeys(request_cache)
       \/ Entry(request_cache', key).value # Entry(request_cache, key).value
       \/ Entry(request_cache', key).stamp # Entry(request_cache, key).stamp

\* C20: while a GET for a key is in flight its lock is locked and the cache
\* has no live item for the key; a GET is sent only by a task that holds
\* the lock and has just missed the cache; and an item is stored only by
\* the task that holds its key's lock, after its GET.
C20_GetOnlyAfterMiss ==
    /\ [](\A c \in Tasks :
             pc[c] = "mr_await" =>
                 /\ ~CacheContains(request_cache, frame[c].cache_key, now)
                 /\ locks[frame[c].lock].locked)
    /\ [][/\ \A c \in Tasks :
                pc[c] # "mr_await" /\ pc'[c] = "mr_await" =>
                    /\ pc[c] = "mr_get"
                    /\ locks[frame[c].lock].locked
                    /\ ~CacheContains(request_cache, frame[c].cache_key, now)
          /\ \A key \in StoredKeys(request_cache') :
                StoredAnew(key) =>
                    \E c \in Tasks :
                        /\ pc[c] = "mr_store"
                        /\ pc'[c] = "mr_exit"
                        /\ frame[c].cache_key = key
                        /\ frame[c].gets = 1
                        /\ locks[frame[c].lock].locked
                        /\ Holders(key) = {c}]_vars

C20_Witness ==
    \E c \in Tasks :
        /\ pc[c] = "mr_await"
        /\ frame[c].waited
        /\ frame[c].cache_key \in StoredKeys(request_cache)

====
